---------------------------- MODULE Spec2Model ----------------------------
(***************************************************************************)
(* A model of the seismic data fetchers of the earthquake_detector         *)
(* repository (src/backup): the waveform retrieval loop, the station       *)
(* resolver, the per-event archiver and the batch loop, in the three       *)
(* variants the repository holds:                                          *)
(*   "full"        SeismicDataFetcher      (fetch_seismic_data.py)         *)
(*   "production"  ProductionSeismicFetcher (production_seismic_fetcher.py)*)
(*   "simple"      SimpleSeismicFetcher    (simple_seismic_fetcher.py)     *)
(***************************************************************************)
EXTENDS Integers, Sequences, FiniteSets, TLC

VARIABLES
    variant,    \* which fetcher class runs
    order,      \* retrieval: the (client, channel) pairs a retrieval walks
    pipe,       \* retrieval: the state of the retrieval loop
    query,      \* resolver: the query and what each catalog source answers
    found,      \* resolver: what get_nearest_stations returned
    catalog,    \* batch: the rows of the event catalog, in file order
    fs,         \* batch: the archive directory tree (survives the process)
    run,        \* batch: the running process: its loop index and counters
    call        \* batch: the process_earthquake call in progress

vars == <<variant, order, pipe, query, found, catalog, fs, run, call>>

Variants == {"full", "production", "simple"}

(***************************************************************************)
(* Bounds of the model.                                                    *)
(***************************************************************************)
MaxClients == 2      \* clients that init_clients managed to initialise
MaxChannels == 2     \* channel patterns tried per client
MaxAnswer == 2       \* stations one catalog source returns to one query
BatchChannels == 1   \* channel patterns per client when whole runs are modelled
MaxEvents == 2       \* rows of the event catalog
MaxRuns == 2         \* times the program is started over the same archive
MaxRows == 11        \* rows of the CSV file when the progress report is modelled
MaxDropped == 1      \* rows of it without coordinates
MaxStart == 1        \* largest start_from

(***************************************************************************)
(* Small helpers.                                                          *)
(***************************************************************************)
Min(a, b) == IF a <= b THEN a ELSE b

\* A slice that keeps the whole sequence.
TakeAll(s, n) == s

Take(s, n) == SubSeq(s, 1, Min(n, Len(s)))

SeqsUpTo(S, n) == UNION {[1..k -> S] : k \in 0..n}

(***************************************************************************)
(* RetrievalPipeline: get_seismic_waveforms / get_waveforms.               *)
(***************************************************************************)

\* The clients init_clients tries, in dictionary order.
ClientNames == <<"IRIS", "USGS", "SCEDC">>

\* The channel patterns each variant walks, in order.  The simple fetcher's
\* nested priority groups are flattened in iteration order.
ChannelList(v) ==
    CASE v = "full" -> <<"BHZ", "HHZ", "BHN", "BHE">>
      [] v = "production" -> <<"BH*", "HH*", "LH*", "BHZ", "HHZ">>
      [] v = "simple" -> <<"BH*", "HH*", "LH*", "BH1", "BH2", "BHZ", "HH1", "HH2", "HHZ">>

\* The loops nested the other way round: every client for the first channel,
\* then every client for the next.
FallbackOrderChannelMajor(v, nCl, nCh) ==
    LET chans == Take(ChannelList(v), nCh)
        n == Len(chans)
    IN [k \in 1..(nCl * n) |->
          [client |-> ClientNames[((k - 1) % nCl) + 1],
           channel |-> chans[((k - 1) \div nCl) + 1]]]

\* The pairs the nested loops visit: every channel of the first client, then
\* every channel of the next.  nCl is the number of initialised clients (the
\* production and simple fetchers have the one IRIS client, or none).
FallbackOrder(v, nCl, nCh) ==
    LET chans == Take(ChannelList(v), nCh)
        n == Len(chans)
    IN [k \in 1..(nCl * n) |->
          [client |-> ClientNames[((k - 1) \div n) + 1],
           channel |-> chans[((k - 1) % n) + 1]]]

\* What one client.get_waveforms call can do:
\*   data     a stream with at least one trace
\*   empty    a falsy / zero-length stream
\*   nodata   FDSNException "No data available" (not-found)
\*   fdsnerr  any other FDSNException
\*   error    any other Exception
Outcomes == {"data", "empty", "nodata", "fdsnerr", "error"}

\* Whether time.sleep is reached after an attempt that did not return.
SleepsAfter(v, outcome) ==
    CASE v = "full" -> TRUE
      [] v = "production" -> outcome = "empty"
      [] v = "simple" -> outcome # "nodata"

\* The second element of the returned tuple.
SourceLabel(v, pair) ==
    CASE v = "full" -> pair.client
      [] v = "production" -> "IRIS-" \o pair.channel
      [] v = "simple" -> "IRIS"

\* The loop before its first iteration.  Without a client the production and
\* simple fetchers return at once; the full fetcher's loop over an empty
\* dictionary falls through to "return None, None".
PipeStart(v, ord) ==
    [idx |-> 1,
     log |-> <<>>,
     status |-> IF Len(ord) = 0 THEN "exhausted" ELSE "running",
     result |-> 0,
     source |-> IF Len(ord) = 0
                THEN (IF v = "full" THEN "None" ELSE "No client available")
                ELSE "None"]

\* PipeStep with the early return on success left out: the loop goes on to the
\* next pair after a non-empty stream.
PipeStepNoReturn(v, ord, p, outcome) ==
    LET k == p.idx
    IN [p EXCEPT !.log = Append(@, [pair |-> k, outcome |-> outcome, slept |-> TRUE]),
                 !.idx = k + 1,
                 !.result = IF outcome = "data" THEN k ELSE @,
                 !.status = IF outcome = "interrupt" THEN "raised"
                            ELSE IF k + 1 > Len(ord)
                                 THEN (IF outcome = "data" \/ @ = "returned"
                                       THEN "returned" ELSE "exhausted")
                                 ELSE "running"]

\* PipeStep with not-found escaping the loop as an exception.
PipeStepRaiseNotFound(v, ord, p, outcome) ==
    LET k == p.idx
        entry(sl) == [pair |-> k, outcome |-> outcome, slept |-> sl]
    IN CASE outcome = "data" ->
              [p EXCEPT !.log = Append(@, entry(FALSE)),
                        !.status = "returned",
                        !.result = k,
                        !.source = SourceLabel(v, ord[k])]
         [] outcome \in {"interrupt", "nodata"} ->
              [p EXCEPT !.log = Append(@, entry(FALSE)),
                        !.status = "raised"]
         [] OTHER ->
              [p EXCEPT !.log = Append(@, entry(SleepsAfter(v, outcome))),
                        !.idx = k + 1,
                        !.status = IF k + 1 > Len(ord) THEN "exhausted" ELSE "running"]

\* PipeStep with an exception other than not-found escaping the loop.
PipeStepRaiseTransient(v, ord, p, outcome) ==
    LET k == p.idx
        entry(sl) == [pair |-> k, outcome |-> outcome, slept |-> sl]
    IN CASE outcome = "data" ->
              [p EXCEPT !.log = Append(@, entry(FALSE)),
                        !.status = "returned",
                        !.result = k,
                        !.source = SourceLabel(v, ord[k])]
         [] outcome \in {"interrupt", "fdsnerr", "error"} ->
              [p EXCEPT !.log = Append(@, entry(FALSE)),
                        !.status = "raised"]
         [] OTHER ->
              [p EXCEPT !.log = Append(@, entry(SleepsAfter(v, outcome))),
                        !.idx = k + 1,
                        !.status = IF k + 1 > Len(ord) THEN "exhausted" ELSE "running"]

\* One iteration of the loop body on pair ord[p.idx], the call ending in
\* `outcome`; "interrupt" is a KeyboardInterrupt raised inside the call, which
\* neither "except FDSNException" nor "except Exception" catches.
PipeStep(v, ord, p, outcome) ==
    LET k == p.idx
        entry(sl) == [pair |-> k, outcome |-> outcome, slept |-> sl]
    IN CASE outcome = "data" ->
              [p EXCEPT !.log = Append(@, entry(FALSE)),
                        !.status = "returned",
                        !.result = k,
                        !.source = SourceLabel(v, ord[k])]
         [] outcome = "interrupt" ->
              [p EXCEPT !.log = Append(@, entry(FALSE)),
                        !.status = "raised"]
         [] OTHER ->
              [p EXCEPT !.log = Append(@, entry(SleepsAfter(v, outcome))),
                        !.idx = k + 1,
                        !.status = IF k + 1 > Len(ord) THEN "exhausted" ELSE "running",
                        !.source = IF k + 1 > Len(ord)
                                   THEN (IF v = "full" THEN "None" ELSE "No data found")
                                   ELSE @]

\* The whole call, given what each attempt would answer.
RECURSIVE PipeRun(_, _, _, _)
PipeRun(v, ord, p, outs) ==
    IF p.status # "running" THEN p
    ELSE PipeRun(v, ord, PipeStep(v, ord, p, outs[p.idx]), outs)

(***************************************************************************)
(* GeoDistance and StationResolver: calculate_distance,                    *)
(* get_nearest_stations, get_fallback_stations, get_global_stations.       *)
(*                                                                         *)
(* Points of the model lie on the equator at whole degrees of longitude.   *)
(* There the haversine formula gives a = sin^2(dlon/2) and                 *)
(* c = 2*asin(sqrt(a)), the angle between the two points the short way     *)
(* round, and the distance is c * 6371 km (111.195 km per degree).         *)
(***************************************************************************)
MetresPerDegree == 111195

\* The way from the first point eastwards to the second.
DistanceEastward(lonA, lonB) ==
    (((lonB - lonA) % 360) * MetresPerDegree) \div 1000

Distance(lonA, lonB) ==
    LET d == IF lonA >= lonB THEN lonA - lonB ELSE lonB - lonA
        angle == IF d <= 180 THEN d ELSE 360 - d
    IN (angle * MetresPerDegree) \div 1000

\* Stations of the built-in global lists that all three variants hold, in the
\* order of the production fetcher's list, at their longitudes rounded to
\* whole degrees.
GlobalStations ==
    << [network |-> "IU", station |-> "ANMO", lon |-> -106],
       [network |-> "IU", station |-> "HRV", lon |-> -72],
       [network |-> "IU", station |-> "KONO", lon |-> 10],
       [network |-> "GE", station |-> "APE", lon |-> 14],
       [network |-> "IU", station |-> "TATO", lon |-> 121],
       [network |-> "IU", station |-> "ULN", lon |-> 107],
       [network |-> "GE", station |-> "SUMG", lon |-> 100],
       [network |-> "AU", station |-> "EIDS", lon |-> 117] >>

\* key = f"{station['network']}.{station['station']}"
Key(s) == s.network \o "." \o s.station

\* A catalog station with its distance from the query centre.
Ranked(s, center, client) ==
    [network |-> s.network, station |-> s.station, lon |-> s.lon,
     distance_km |-> Distance(center, s.lon), client |-> client]

\* A filter that lets every station of the list through.
RECURSIVE WithinRadiusAll(_, _, _)
WithinRadiusAll(list, center, radius) ==
    IF list = <<>> THEN <<>>
    ELSE <<Ranked(Head(list), center, "IRIS")>> \o WithinRadiusAll(Tail(list), center, radius)

\* The stations of a list that lie within the radius, in list order.
RECURSIVE WithinRadius(_, _, _)
WithinRadius(list, center, radius) ==
    IF list = <<>> THEN <<>>
    ELSE LET r == Ranked(Head(list), center, "IRIS")
             rest == WithinRadius(Tail(list), center, radius)
         IN IF r.distance_km <= radius THEN <<r>> \o rest ELSE rest

\* The loop over self.clients given up at the first client whose query
\* raises.
RECURSIVE FromClientsUntilError(_, _, _)
FromClientsUntilError(answers, center, k) ==
    IF k > Len(answers) THEN <<>>
    ELSE LET a == answers[k]
         IN IF a.ok
            THEN [i \in 1..Len(a.stations) |->
                    Ranked(a.stations[i], center, ClientNames[k])]
                 \o FromClientsUntilError(answers, center, k + 1)
            ELSE <<>>

\* What the loop over self.clients appends to all_stations: every station of
\* every inventory a client returned, as returned; a client whose query raises
\* adds nothing.  No distance test is applied to them.
RECURSIVE FromClients(_, _, _)
FromClients(answers, center, k) ==
    IF k > Len(answers) THEN <<>>
    ELSE LET a == answers[k]
             mine == IF a.ok
                     THEN [i \in 1..Len(a.stations) |->
                             Ranked(a.stations[i], center, ClientNames[k])]
                     ELSE <<>>
         IN mine \o FromClients(answers, center, k + 1)

\* A deduplication that keeps everything.
DedupeNothing(list, seen) == list

\* The first occurrence of every key, in order of first occurrence.
RECURSIVE Dedupe(_, _)
Dedupe(list, seen) ==
    IF list = <<>> THEN <<>>
    ELSE IF Key(Head(list)) \in seen
         THEN Dedupe(Tail(list), seen)
         ELSE <<Head(list)>> \o Dedupe(Tail(list), seen \cup {Key(Head(list))})

\* list.sort(key=distance_km) is stable: x goes behind every element that is
\* not farther than it.
RECURSIVE InsertByDistance(_, _)
InsertByDistance(sorted, x) ==
    IF sorted = <<>> THEN <<x>>
    ELSE IF Head(sorted).distance_km <= x.distance_km
         THEN <<Head(sorted)>> \o InsertByDistance(Tail(sorted), x)
         ELSE <<x>> \o sorted

\* A sort that leaves the list as it is.
SortByDistanceNot(list) == list

RECURSIVE SortByDistance(_)
SortByDistance(list) ==
    IF list = <<>> THEN <<>>
    ELSE InsertByDistance(SortByDistance(SubSeq(list, 1, Len(list) - 1)),
                          list[Len(list)])

\* get_nearest_stations (full, production) and get_global_stations (simple,
\* which does not truncate).
GetNearestStations(v, q) ==
    CASE v = "full" ->
           LET fromClients == FromClients(q.answers, q.center, 1)
               all == IF fromClients = <<>>
                      THEN WithinRadius(GlobalStations, q.center, q.radius)
                      ELSE fromClients
           IN Take(SortByDistance(Dedupe(all, {})), q.limit)
      [] v = "production" ->
           Take(SortByDistance(WithinRadius(GlobalStations, q.center, q.radius)), q.limit)
      [] v = "simple" ->
           SortByDistance(WithinRadius(GlobalStations, q.center, q.radius))

(***************************************************************************)
(* EventArchiver: process_earthquake / process_single_earthquake.          *)
(***************************************************************************)

\* Characters of titles: c.isalnum() holds of the letters and digits.
Alnum == {"M", "7", "A"}

KeptChars == Alnum \cup {" ", "-", "_"}

\* "".join(c for c in title if c.isalnum() or c in (' ', '-', '_'))
RECURSIVE FilterTitle(_)
FilterTitle(t) ==
    IF t = <<>> THEN <<>>
    ELSE IF Head(t) \in KeptChars
         THEN <<Head(t)>> \o FilterTitle(Tail(t))
         ELSE FilterTitle(Tail(t))

\* str.rstrip()
RECURSIVE RStrip(_)
RStrip(t) ==
    IF t = <<>> THEN <<>>
    ELSE IF t[Len(t)] = " " THEN RStrip(SubSeq(t, 1, Len(t) - 1)) ELSE t

\* The slice bound of safe_title.
TitleLimit(v) ==
    CASE v = "full" -> 100
      [] v = "production" -> 60
      [] v = "simple" -> 80

SafeTitle(v, title) ==
    LET kept == RStrip(FilterTitle(title))
    IN Take([i \in 1..Len(kept) |-> IF kept[i] = " " THEN "_" ELSE kept[i]],
            TitleLimit(v))

SecondsPerMinute == 60
SecondsPerHour == 3600
SecondsPerDay == 86400
WindowDays == 30

\* f"{event_time.strftime('%Y%m%d_%H%M')}_M{magnitude}_{safe_title}": the time
\* to the minute, the magnitude and the sanitised title.
EventDir(v, ev, t) ==
    [stamp |-> t \div SecondsPerMinute, magnitude |-> ev.magnitude,
     title |-> SafeTitle(v, ev.title)]

\* A guard interval of no length.
BufferHoursNone(v) == 0

\* timedelta(hours=...) of before_end and after_start.
BufferHours(v) == IF v = "production" THEN 2 ELSE 1

Windows(v, t) ==
    [before_start |-> t - WindowDays * SecondsPerDay,
     before_end |-> t - BufferHours(v) * SecondsPerHour,
     after_start |-> t + BufferHours(v) * SecondsPerHour,
     after_end |-> t + WindowDays * SecondsPerDay]

\* An existence test that never finds the directory.
AlreadyProcessedNever(dir, f) == FALSE

\* os.path.exists(event_dir)
AlreadyProcessed(dir, f) == dir \in f.dirs

\* The radius and the number of stations each variant asks the resolver for
\* (the full fetcher calls with the defaults).
ResolveRadius(v) ==
    CASE v = "full" -> 500
      [] v = "production" -> 4000
      [] v = "simple" -> 2000

ResolveLimit(v) ==
    CASE v = "full" -> 5
      [] v = "production" -> 3
      [] v = "simple" -> 3

\* stations[:3]
StationCap == 3

(***************************************************************************)
(* The events of the model.  Quake and QuakeAgain differ in the seconds of *)
(* their time and in a character of the title that the sanitiser drops, so *)
(* they share a directory and have one built-in station (IU.ANMO) within   *)
(* 2000 km and none within 500 km; Remote is far from every station;       *)
(* Garbled has a date no parser reads.  "primary" dates are in the         *)
(* day-month-year format, "general" dates only pd.to_datetime without a    *)
(* format reads; both readings of a primary date agree here (day > 12).    *)
(***************************************************************************)
QuakeTime == 1676510220     \* 2023-02-16 01:17:00 UTC

Quake ==
    [title |-> <<"M", " ", "7", " ", "A">>, magnitude |-> 7,
     date |-> [fmt |-> "primary", t |-> QuakeTime], lon |-> -120]

QuakeAgain ==
    [title |-> <<"M", " ", "7", " ", "A", "!", " ">>, magnitude |-> 7,
     date |-> [fmt |-> "general", t |-> QuakeTime + 35], lon |-> -120]

Remote ==
    [title |-> <<"M", " ", "7", "-", "A">>, magnitude |-> 7,
     date |-> [fmt |-> "primary", t |-> QuakeTime], lon |-> 170]

Garbled ==
    [title |-> <<"M", " ", "7">>, magnitude |-> 7,
     date |-> [fmt |-> "bad", t |-> 0], lon |-> 10]

Events == {Quake, QuakeAgain, Remote, Garbled}

\* An event with two built-in stations within 500 km, the nearer of which
\* (GE.APE, 111 km) stands behind the farther (IU.KONO, 333 km) in the lists.
Europe ==
    [title |-> <<"M", " ", "7">>, magnitude |-> 7,
     date |-> [fmt |-> "primary", t |-> QuakeTime], lon |-> 13]

\* An event with four built-in stations within 2000 km (IU.ULN 333 km,
\* AU.EIDS 778 km, GE.SUMG 1111 km, IU.TATO 1223 km), one of them within 500.
Asia ==
    [title |-> <<"M", " ", "7">>, magnitude |-> 7,
     date |-> [fmt |-> "primary", t |-> QuakeTime], lon |-> 110]

\* What the one client of a batch run answers a station query with.
BatchAnswers ==
    { [ok |-> FALSE, stations |-> <<>>],
      [ok |-> TRUE, stations |-> <<>>],
      [ok |-> TRUE, stations |-> <<[network |-> "IU", station |-> "ANMO", lon |-> -118]>>] }

\* What it answers a query around the location of an event with: for Asia,
\* an error or the four stations of the region.
AnswersFor(ev) ==
    IF ev.lon = Asia.lon
    THEN { [ok |-> FALSE, stations |-> <<>>],
           [ok |-> TRUE, stations |-> SubSeq(GlobalStations, 5, 8)] }
    ELSE BatchAnswers

EmptyFs == [dirs |-> {}, meta |-> <<>>, files |-> {},
            summary |-> [written |-> FALSE, total_events |-> 0,
                         successful |-> 0, failed |-> 0]]

\* The period of the progress report: "% 10 == 0".
ProgressEvery == 10

\* A report after every row.
CheckpointDueAlways(index, start_from) == TRUE

\* if (index - start_from + 1) % 10 == 0, index being the row's label in the
\* data frame.
CheckpointDue(index, start_from) == (index - start_from + 1) % ProgressEvery = 0

\* The labels of the rows the loop walks: read_csv numbers the n rows of the
\* file from 0, dropna removes the rows without coordinates and keeps the
\* labels of the others, iloc[start_from:] skips the first start_from rows
\* that are left.
RECURSIVE KeptLabels(_, _, _)
KeptLabels(n, dropped, from) ==
    IF from >= n THEN <<>>
    ELSE IF from \in dropped
         THEN KeptLabels(n, dropped, from + 1)
         ELSE <<from>> \o KeptLabels(n, dropped, from + 1)

Labels(n, dropped, start_from) ==
    LET kept == KeptLabels(n, dropped, 0)
    IN SubSeq(kept, start_from + 1, Len(kept))

\* inherited, interrupted, startedAfterInterrupt and wroteSummary record what
\* happened in the run: the directories that were there when it started,
\* whether Ctrl-C was pressed, whether an event was started after that, and
\* whether the run wrote processing_summary.json; checkpoints holds the
\* numbers k such that a progress report was printed after the k-th row of
\* the run.
NoRun == [no |-> 0, phase |-> "ended", exit |-> "none", clients |-> 0, i |-> 0,
          successful |-> 0, failed |-> 0, inherited |-> {},
          interrupted |-> FALSE, startedAfterInterrupt |-> FALSE,
          wroteSummary |-> FALSE, start_from |-> 0, checkpoints |-> {}]

NoWindows == [before_start |-> 0, before_end |-> 0, after_start |-> 0, after_end |-> 0]

NoDir == [stamp |-> 0, magnitude |-> 0, title |-> <<>>]

NoCall == [pc |-> "idle", event |-> Garbled, time |-> 0, dir |-> NoDir,
           existed |-> FALSE, windows |-> NoWindows, resolved |-> FALSE,
           stations |-> <<>>, k |-> 0, before |-> FALSE, data |-> <<>>,
           log |-> <<>>,
           resolves |-> 0, fetches |-> 0, oserror |-> FALSE, result |-> "None"]

\* Functions as the directory listing: d added with value x.
Put(f, d, x) == [e \in (DOMAIN f) \cup {d} |-> IF e = d THEN x ELSE f[e]]

(***************************************************************************)
(* The retrieval loop on its own, for every variant and fallback order.    *)
(***************************************************************************)
NoQuery == [center |-> 0, radius |-> 0, limit |-> 0, answers |-> <<>>]

NotFound == [done |-> FALSE, stations |-> <<>>]

InitPipeline ==
    /\ variant \in Variants
    /\ \E nCl \in 0..MaxClients, nCh \in 1..MaxChannels :
          /\ (variant # "full" => nCl <= 1)
          /\ order = FallbackOrder(variant, nCl, nCh)
    /\ pipe = PipeStart(variant, order)
    /\ query = NoQuery
    /\ found = NotFound
    /\ catalog = <<>>
    /\ fs = EmptyFs
    /\ run = NoRun
    /\ call = NoCall

PipeAttempt ==
    /\ pipe.status = "running"
    /\ \E o \in Outcomes : pipe' = PipeStep(variant, order, pipe, o)
    /\ UNCHANGED <<variant, order, query, found, catalog, fs, run, call>>

PipeInterrupt ==
    /\ pipe.status = "running"
    /\ pipe' = PipeStep(variant, order, pipe, "interrupt")
    /\ UNCHANGED <<variant, order, query, found, catalog, fs, run, call>>

NextPipeline == PipeAttempt \/ PipeInterrupt

SpecPipeline == InitPipeline /\ [][NextPipeline]_vars

(***************************************************************************)
(* The resolver on its own: a query, the answers of the catalog sources,   *)
(* and one call.                                                           *)
(***************************************************************************)
\* What a catalog source may report: the same station (IU.ANMO) at the
\* coordinates two sources give it, and a station far from the first centre.
Candidates ==
    { [network |-> "IU", station |-> "ANMO", lon |-> -106],
      [network |-> "IU", station |-> "ANMO", lon |-> -100],
      [network |-> "GE", station |-> "APE", lon |-> 14] }

Centers == {-100, 10, 12}

Radii == {500, 1000}

Limits == {1, 2}

Answers == [ok : BOOLEAN, stations : SeqsUpTo(Candidates, MaxAnswer)]

InitResolver ==
    /\ variant \in Variants
    /\ order = <<>>
    /\ pipe = PipeStart(variant, order)
    /\ query \in [center : Centers, radius : Radii, limit : Limits,
                  answers : IF variant = "full"
                            THEN SeqsUpTo({a \in Answers : a.ok \/ a.stations = <<>>},
                                          MaxClients)
                            ELSE {<<>>}]
    /\ found = NotFound
    /\ catalog = <<>>
    /\ fs = EmptyFs
    /\ run = NoRun
    /\ call = NoCall

Resolve ==
    /\ ~found.done
    /\ found' = [done |-> TRUE, stations |-> GetNearestStations(variant, query)]
    /\ UNCHANGED <<variant, order, pipe, query, catalog, fs, run, call>>

NextResolver == Resolve

SpecResolver == InitResolver /\ [][NextResolver]_vars

(***************************************************************************)
(* BatchRunner: fetch_all_earthquake_data / process_all_earthquakes / the  *)
(* simple fetcher's main, run up to MaxRuns times over one archive.        *)
(***************************************************************************)
InitBatch ==
    /\ variant \in Variants
    /\ order = <<>>
    /\ pipe = PipeStart(variant, order)
    /\ query = NoQuery
    /\ found = NotFound
    /\ catalog \in SeqsUpTo(Events, MaxEvents)
    /\ (variant = "simple" => Len(catalog) = 1 /\ catalog[1].date.fmt # "bad")
    /\ fs = EmptyFs
    /\ run = NoRun
    /\ call = NoCall

\* The process starts: the constructor initialises its clients (one or none
\* here).  Without a client the production fetcher's process_all_earthquakes
\* and the simple fetcher's main return at once; the full fetcher only warns.
StartRun ==
    /\ run.phase = "ended"
    /\ run.no < MaxRuns
    /\ \E nCl \in 0..1 :
          /\ order' = FallbackOrder(variant, nCl, BatchChannels)
          /\ run' = [NoRun EXCEPT !.no = run.no + 1,
                                  !.clients = nCl,
                                  !.inherited = fs.dirs,
                                  !.phase = IF variant # "full" /\ nCl = 0
                                            THEN "ended" ELSE "loop",
                                  !.exit = IF variant # "full" /\ nCl = 0
                                           THEN "noclient" ELSE "none"]
    /\ call' = NoCall
    /\ UNCHANGED <<variant, pipe, query, found, catalog, fs>>

\* The loop takes the next row and calls process_earthquake.
BeginEvent ==
    /\ run.phase = "loop"
    /\ call.pc = "idle"
    /\ run.i < Len(catalog)
    /\ run' = [run EXCEPT !.i = @ + 1,
                          !.startedAfterInterrupt = @ \/ run.interrupted]
    /\ call' = [NoCall EXCEPT !.event = catalog[run.i + 1],
                              !.time = IF variant = "simple"
                                       THEN catalog[run.i + 1].date.t ELSE 0,
                              !.pc = IF variant = "simple" THEN "dir" ELSE "parse1"]
    /\ UNCHANGED <<variant, order, pipe, query, found, catalog, fs>>

\* pd.to_datetime(date_str, format='%d-%m-%Y %H:%M')
ParsePrimary ==
    /\ run.phase = "loop"
    /\ call.pc = "parse1"
    /\ call' = IF call.event.date.fmt = "primary"
               THEN [call EXCEPT !.time = call.event.date.t, !.pc = "dir"]
               ELSE [call EXCEPT !.pc = "parse2"]
    /\ UNCHANGED <<variant, order, pipe, query, found, catalog, fs, run>>

\* The second parse with its failure ignored: the call goes on with no time.
ParseGeneralGoesOn ==
    /\ run.phase = "loop"
    /\ call.pc = "parse2"
    /\ call' = [call EXCEPT !.time = call.event.date.t, !.pc = "dir"]
    /\ UNCHANGED <<variant, order, pipe, query, found, catalog, fs, run>>

\* pd.to_datetime(date_str) in the handler of the first attempt; if it raises
\* too the call returns None.
ParseGeneral ==
    /\ run.phase = "loop"
    /\ call.pc = "parse2"
    /\ call' = IF call.event.date.fmt # "bad"
               THEN [call EXCEPT !.time = call.event.date.t, !.pc = "dir"]
               ELSE [call EXCEPT !.pc = "ret", !.result = "None"]
    /\ UNCHANGED <<variant, order, pipe, query, found, catalog, fs, run>>

\* The directory name, the existence test, os.makedirs (of the event
\* directory; before_event/ and after_event/ are not modelled apart from it)
\* and the time windows.
MakeDir ==
    /\ run.phase = "loop"
    /\ call.pc = "dir"
    /\ LET d == EventDir(variant, call.event, call.time)
       IN IF AlreadyProcessed(d, fs)
          THEN /\ call' = [call EXCEPT !.dir = d,
                                       !.existed = d \in fs.dirs,
                                       !.pc = "ret",
                                       !.result = "dir"]
               /\ fs' = fs
          ELSE /\ call' = [call EXCEPT !.dir = d,
                                       !.existed = d \in fs.dirs,
                                       !.windows = Windows(variant, call.time),
                                       !.pc = "resolve"]
               /\ fs' = [fs EXCEPT !.dirs = @ \cup {d}]
    /\ UNCHANGED <<variant, order, pipe, query, found, catalog, run>>

\* Every station the resolver returned.
SelectedAll(v, stations) == stations

\* The stations walked farthest first.
SelectedFarthestFirst(v, stations) ==
    [i \in 1..Len(stations) |-> stations[Len(stations) + 1 - i]]

\* The stations the station loop walks: enumerate(stations[:3]) in the full
\* and simple fetchers, enumerate(stations, 1) in the production fetcher.
Selected(v, stations) ==
    IF v = "production" THEN stations ELSE Take(stations, StationCap)

\* WriteMetadata with the status taken from what was retrieved: an event of
\* which no window was stored is recorded as no_stations_found.
WriteMetadataStatusByData(v, c, f, r, status, data, ok) ==
    LET st == IF \E k \in 1..Len(data) : data[k].before \/ data[k].after
              THEN "completed" ELSE "no_stations_found"
    IN IF ok
       THEN [call |-> [c EXCEPT !.pc = "ret", !.result = "dir"],
             fs |-> [f EXCEPT !.meta = Put(@, c.dir, [status |-> st, stations |-> data])],
             run |-> r]
       ELSE IF v = "simple"
            THEN [call |-> NoCall, fs |-> f,
                  run |-> [r EXCEPT !.phase = "ended", !.exit = "error"]]
            ELSE [call |-> [c EXCEPT !.pc = "ret", !.result = "None", !.oserror = TRUE],
                  fs |-> f, run |-> r]

\* WriteMetadata with no handler around the call in any variant: a failed
\* write ends the run.
WriteMetadataRaises(v, c, f, r, status, data, ok) ==
    IF ok
    THEN [call |-> [c EXCEPT !.pc = "ret", !.result = "dir"],
          fs |-> [f EXCEPT !.meta = Put(@, c.dir, [status |-> status, stations |-> data])],
          run |-> r]
    ELSE [call |-> NoCall, fs |-> f,
          run |-> [r EXCEPT !.phase = "ended", !.exit = "error"]]

\* json.dump of the metadata record into event_dir/metadata.json by call c; ok
\* is whether open and dump went through.  An OSError is caught by the handler
\* around process_earthquake, which returns None; the simple fetcher has no
\* such handler and the error ends its main.
WriteMetadata(v, c, f, r, status, data, ok) ==
    IF ok
    THEN [call |-> [c EXCEPT !.pc = "ret", !.result = "dir"],
          fs |-> [f EXCEPT !.meta = Put(@, c.dir, [status |-> status, stations |-> data])],
          run |-> r]
    ELSE IF v = "simple"
         THEN [call |-> NoCall, fs |-> f,
               run |-> [r EXCEPT !.phase = "ended", !.exit = "error"]]
         ELSE [call |-> [c EXCEPT !.pc = "ret", !.result = "None", !.oserror = TRUE],
               fs |-> f, run |-> r]

\* get_nearest_stations for the event's location.  With no station the full
\* fetcher writes a no_stations_found record and returns the directory; the
\* production and simple fetchers return None.
ResolveStations ==
    /\ run.phase = "loop"
    /\ call.pc = "resolve"
    /\ \E answers \in (IF variant = "full" /\ run.clients = 1
                       THEN {<<a>> : a \in AnswersFor(call.event)} ELSE {<<>>}),
          ok \in BOOLEAN :
          LET q == [center |-> call.event.lon, radius |-> ResolveRadius(variant),
                    limit |-> ResolveLimit(variant), answers |-> answers]
              st == GetNearestStations(variant, q)
              c == [call EXCEPT !.resolved = TRUE, !.resolves = @ + 1, !.stations = st]
              w == WriteMetadata(variant, c, fs, run, "no_stations_found", <<>>, ok)
          IN IF st = <<>>
             THEN IF variant = "full"
                  THEN call' = w.call /\ fs' = w.fs /\ run' = w.run
                  ELSE /\ call' = [c EXCEPT !.pc = "ret", !.result = "None"]
                       /\ UNCHANGED <<fs, run>>
             ELSE /\ call' = [c EXCEPT !.k = 1, !.pc = "before"]
                  /\ UNCHANGED <<fs, run>>
    /\ UNCHANGED <<variant, order, pipe, query, found, catalog>>

\* A flag set whenever a stream came back, written or not.
StoredIfGot(got, saved) == got

\* data_available / data_retrieved of a window: set inside "if waveforms:" and
\* only once the write went through.
Stored(got, saved) == got /\ saved

\* One window of one station: the retrieval over the fallback order, then the
\* write of the .mseed file when a stream came back.  saved is whether the
\* write went through; a failed write is caught and leaves the flag False.
\* call.log records the retrievals of the call in the order they were made:
\* the station, the window, whether a stream came back and whether its file
\* was written.
Retrieve(outs) == PipeRun(variant, order, PipeStart(variant, order), outs)

\* What a retrieval can come to, over all the answers the services can give:
\* whether a stream came back, and the number of fetch calls issued.
Retrievals ==
    {[got |-> Retrieve(outs).status = "returned", calls |-> Len(Retrieve(outs).log)] :
        outs \in [1..Len(order) -> Outcomes]}

FetchBefore ==
    /\ run.phase = "loop"
    /\ call.pc = "before"
    /\ \E p \in Retrievals, saved \in BOOLEAN :
          LET stored == Stored(p.got, saved)
              written == p.got /\ saved
              station == Selected(variant, call.stations)[call.k]
          IN /\ call' = [call EXCEPT !.fetches = @ + p.calls,
                                     !.log = Append(@, [station |-> Key(station),
                                                        window |-> "before",
                                                        got |-> p.got,
                                                        saved |-> written]),
                                     !.before = stored, !.pc = "after"]
             /\ fs' = IF written
                      THEN [fs EXCEPT !.files = @ \cup
                              {<<call.dir, Key(station), "before">>}]
                      ELSE fs
    /\ UNCHANGED <<variant, order, pipe, query, found, catalog, run>>

FetchAfter ==
    /\ run.phase = "loop"
    /\ call.pc = "after"
    /\ \E p \in Retrievals, saved \in BOOLEAN :
          LET stored == Stored(p.got, saved)
              written == p.got /\ saved
              station == Selected(variant, call.stations)[call.k]
              info == [key |-> Key(station),
                       before |-> call.before, after |-> stored]
              last == call.k >= Len(Selected(variant, call.stations))
          IN /\ call' = [call EXCEPT !.fetches = @ + p.calls,
                                     !.log = Append(@, [station |-> Key(station),
                                                        window |-> "after",
                                                        got |-> p.got,
                                                        saved |-> written]),
                                     !.data = Append(@, info),
                                     !.before = FALSE,
                                     !.k = @ + 1,
                                     !.pc = IF last THEN "meta" ELSE "before"]
             /\ fs' = IF written
                      THEN [fs EXCEPT !.files = @ \cup
                              {<<call.dir, Key(station), "after">>}]
                      ELSE fs
    /\ UNCHANGED <<variant, order, pipe, query, found, catalog, run>>

\* The metadata record of an event that had stations.
SaveMetadata ==
    /\ run.phase = "loop"
    /\ call.pc = "meta"
    /\ \E ok \in BOOLEAN :
          LET w == WriteMetadata(variant, call, fs, run, "completed", call.data, ok)
          IN call' = w.call /\ fs' = w.fs /\ run' = w.run
    /\ UNCHANGED <<variant, order, pipe, query, found, catalog>>

\* The loop counting only the events that returned a directory.
CountSuccessOnly ==
    /\ run.phase = "loop"
    /\ call.pc = "ret"
    /\ run' = IF variant = "simple"
              THEN [run EXCEPT !.phase = "ended", !.exit = "complete"]
              ELSE IF call.result # "None"
                   THEN [run EXCEPT !.successful = @ + 1]
                   ELSE run
    /\ call' = NoCall
    /\ UNCHANGED <<variant, order, pipe, query, found, catalog, fs>>

\* Back in the loop: "if result: successful += 1 else: failed += 1".  The
\* simple fetcher's main reports the one result and ends.  Then the progress
\* report, on the row's label: here no row is dropped and the label of the
\* i-th row is i - 1.
Count ==
    /\ run.phase = "loop"
    /\ call.pc = "ret"
    /\ run' = IF variant = "simple"
              THEN [run EXCEPT !.phase = "ended", !.exit = "complete"]
              ELSE LET due == CheckpointDue(run.i - 1, run.start_from)
                       cp == IF due THEN run.checkpoints \cup {run.i}
                             ELSE run.checkpoints
                   IN IF call.result # "None"
                      THEN [run EXCEPT !.successful = @ + 1, !.checkpoints = cp]
                      ELSE [run EXCEPT !.failed = @ + 1, !.checkpoints = cp]
    /\ call' = NoCall
    /\ UNCHANGED <<variant, order, pipe, query, found, catalog, fs>>

\* After the loop: the final report and processing_summary.json.  The
\* production fetcher divides by len(df) in its report, so for an empty
\* catalog it raises before it writes.
Finish ==
    /\ run.phase = "loop"
    /\ call.pc = "idle"
    /\ variant # "simple"
    /\ run.i = Len(catalog)
    /\ IF variant = "production" /\ Len(catalog) = 0
       THEN /\ run' = [run EXCEPT !.phase = "ended", !.exit = "error"]
            /\ fs' = fs
       ELSE /\ run' = [run EXCEPT !.phase = "ended", !.exit = "complete",
                                  !.wroteSummary = TRUE]
            /\ fs' = [fs EXCEPT !.summary =
                        [written |-> TRUE,
                         total_events |-> Len(catalog),
                         successful |-> run.successful, failed |-> run.failed]]
    /\ UNCHANGED <<variant, order, pipe, query, found, catalog, call>>

\* Ctrl-C: a KeyboardInterrupt raised in whatever runs.  Inside the first date
\* parse it is caught by the bare "except:" around it, which goes on to the
\* second parse; inside the second parse it is caught by the inner bare
\* "except:", which returns None.  Anywhere else no handler of the loop or of
\* process_earthquake catches it (they catch Exception) and it ends the run in
\* main's handler.
Interrupt ==
    /\ run.phase = "loop"
    /\ ~run.interrupted
    /\ IF call.pc = "parse1"
       THEN /\ call' = [call EXCEPT !.pc = "parse2"]
            /\ run' = [run EXCEPT !.interrupted = TRUE]
       ELSE IF call.pc = "parse2"
            THEN /\ call' = [call EXCEPT !.pc = "ret", !.result = "None"]
                 /\ run' = [run EXCEPT !.interrupted = TRUE]
            ELSE /\ call' = NoCall
                 /\ run' = [run EXCEPT !.interrupted = TRUE,
                                       !.phase = "ended", !.exit = "interrupted"]
    /\ UNCHANGED <<variant, order, pipe, query, found, catalog, fs>>

Next ==
    \/ StartRun
    \/ BeginEvent
    \/ ParsePrimary
    \/ ParseGeneral
    \/ MakeDir
    \/ ResolveStations
    \/ FetchBefore
    \/ FetchAfter
    \/ SaveMetadata
    \/ Count
    \/ Finish
    \/ Interrupt

Init == InitBatch

Spec == Init /\ [][Next]_vars

(***************************************************************************)
(* The progress report of the batch loop on its own: catalog holds the     *)
(* labels of the rows the loop walks, and a step is one iteration of the   *)
(* loop, whatever process_earthquake returned.                             *)
(***************************************************************************)
InitProgress ==
    /\ variant \in {"full", "production"}
    /\ order = <<>>
    /\ pipe = PipeStart(variant, order)
    /\ query = NoQuery
    /\ found = NotFound
    /\ \E n \in 0..MaxRows, start \in 0..MaxStart :
          \E dropped \in {d \in SUBSET (0..(n - 1)) : Cardinality(d) <= MaxDropped} :
             /\ catalog = Labels(n, dropped, start)
             /\ run = [NoRun EXCEPT !.no = 1, !.phase = "loop", !.clients = 1,
                                    !.start_from = start]
    /\ fs = EmptyFs
    /\ call = NoCall

ProcessRow ==
    /\ run.phase = "loop"
    /\ run.i < Len(catalog)
    /\ \E ok \in BOOLEAN :
          LET k == run.i + 1
              due == CheckpointDue(catalog[k], run.start_from)
          IN run' = [run EXCEPT !.i = k,
                                !.successful = IF ok THEN @ + 1 ELSE @,
                                !.failed = IF ok THEN @ ELSE @ + 1,
                                !.checkpoints = IF due THEN @ \cup {k} ELSE @]
    /\ UNCHANGED <<variant, order, pipe, query, found, catalog, fs, call>>

NextProgress == ProcessRow

SpecProgress == InitProgress /\ [][NextProgress]_vars

(***************************************************************************)
(* The archiver on an event with several stations: the same program run    *)
(* over a catalog of the one row Europe or the one row Asia.               *)
(***************************************************************************)
InitArchive ==
    /\ variant \in Variants
    /\ order = <<>>
    /\ pipe = PipeStart(variant, order)
    /\ query = NoQuery
    /\ found = NotFound
    /\ catalog \in {<<Europe>>, <<Asia>>}
    /\ fs = EmptyFs
    /\ run = NoRun
    /\ call = NoCall

SpecArchive == InitArchive /\ [][Next]_vars

(***************************************************************************)
(* Claims about the retrieval loop (checked under SpecPipeline).           *)
(***************************************************************************)
AllNotFound == \A k \in 1..Len(pipe.log) : pipe.log[k].outcome = "nodata"

\* C2: the retrieval returns on the first (source, channel) pair whose fetch
\* yields a non-empty waveform: a successful fetch is always the last fetch
\* call issued, and the waveform and the source returned are those of that
\* pair.
C2_ReturnsOnFirstSuccess ==
    /\ \A k \in 1..Len(pipe.log) :
          pipe.log[k].outcome = "data" =>
             /\ k = Len(pipe.log)
             /\ pipe.status = "returned"
             /\ pipe.result = pipe.log[k].pair
             /\ pipe.source \in {order[pipe.log[k].pair].client,
                                 "IRIS-" \o order[pipe.log[k].pair].channel}
    /\ pipe.status = "returned" =>
          /\ Len(pipe.log) > 0
          /\ pipe.log[Len(pipe.log)].outcome = "data"

\* A retrieval that returned from a pair that is neither the first nor the
\* last of a fallback order of two clients.
C2_Witness ==
    /\ pipe.status = "returned"
    /\ Len(order) >= 3
    /\ pipe.result > 1
    /\ pipe.result < Len(order)
    /\ order[pipe.result].client # order[1].client

\* C3: when every pair of the fallback order reports not-found the retrieval
\* raises nothing and returns None, having attempted every pair exactly once,
\* in order.
C3_NoneWhenAllNotFound ==
    AllNotFound =>
       /\ pipe.status \in {"running", "exhausted"}
       /\ pipe.status = "exhausted" =>
             /\ pipe.result = 0
             /\ pipe.source \in {"None", "No data found", "No client available"}
             /\ [k \in 1..Len(pipe.log) |-> pipe.log[k].pair] = [k \in 1..Len(order) |-> k]

\* A retrieval over several pairs that all reported not-found and that ended.
C3_Witness ==
    /\ AllNotFound
    /\ pipe.status = "exhausted"
    /\ Len(order) >= 3
    /\ Len(pipe.log) = Len(order)

Transient == {"fdsnerr", "error"}

\* C12: an exception other than not-found raised by the fetch of one pair
\* does not end the retrieval: the pair that follows in the fallback order is
\* the next one attempted (or, after the last pair, the retrieval ends with
\* None), and a later pair that yields a waveform is the one returned.
C12_TransientDoesNotAbort ==
    \A k \in 1..Len(pipe.log) :
       pipe.log[k].outcome \in Transient =>
          /\ k < Len(pipe.log) => pipe.log[k + 1].pair = pipe.log[k].pair + 1
          /\ k = Len(pipe.log) =>
                /\ pipe.idx = pipe.log[k].pair + 1
                /\ pipe.status = IF pipe.log[k].pair < Len(order)
                                 THEN "running" ELSE "exhausted"
          /\ pipe.log[Len(pipe.log)].outcome = "data" =>
                /\ pipe.status = "returned"
                /\ pipe.result = pipe.log[Len(pipe.log)].pair

\* An exception of each kind, then the waveform of a later pair returned.
C12_Witness ==
    /\ Len(pipe.log) = 3
    /\ pipe.log[1].outcome = "error"
    /\ pipe.log[2].outcome = "fdsnerr"
    /\ pipe.log[3].outcome = "data"
    /\ pipe.status = "returned"
    /\ pipe.result = 3

Position(seq, x) == CHOOSE i \in 1..Len(seq) : seq[i] = x

\* C26: the fallback order is walked strictly in sequence and source-major:
\* the k-th attempt of a retrieval is on the k-th pair, no attempt follows a
\* successful one, and in the order every pattern of a source stands, in the
\* configured order of the patterns, before any pattern of the next source.
C26_InSequenceSourceMajor ==
    /\ \A k \in 1..Len(pipe.log) :
          /\ pipe.log[k].pair = k
          /\ k <= Len(order)
          /\ k < Len(pipe.log) => pipe.log[k].outcome # "data"
    /\ \A i, j \in 1..Len(order) :
          i < j =>
             LET ci == Position(ClientNames, order[i].client)
                 cj == Position(ClientNames, order[j].client)
                 hi == Position(ChannelList(variant), order[i].channel)
                 hj == Position(ChannelList(variant), order[j].channel)
             IN ci < cj \/ (ci = cj /\ hi < hj)

\* Both patterns of the first source and the first of the second brought
\* nothing, and the last pair was attempted.
C26_Witness ==
    /\ Len(order) = 4
    /\ order[2].client = order[1].client
    /\ order[3].client # order[1].client
    /\ Len(pipe.log) = 4
    /\ \A k \in 1..3 : pipe.log[k].outcome # "data"

\* C15: between every two consecutive fetch attempts of a retrieval a pacing
\* sleep occurs: every attempt that is followed by another attempt of the
\* same retrieval was followed by a sleep first, whatever its outcome.
C15_SleepBetweenAttempts ==
    \A k \in 1..(Len(pipe.log) - 1) : pipe.log[k].slept

(***************************************************************************)
(* Claims about the resolver (checked under SpecResolver).                 *)
(***************************************************************************)
\* C4: the resolver never returns a station whose distance from the centre
\* exceeds the requested radius, whatever the catalog sources return.
C4_WithinRadius ==
    found.done =>
       \A i \in 1..Len(found.stations) :
          found.stations[i].distance_km <= query.radius

\* C5: the resolver never returns two stations with the same identity
\* (network_code, station_code).
C5_NoDuplicateIdentity ==
    found.done =>
       \A i, j \in 1..Len(found.stations) :
          (/\ found.stations[i].network = found.stations[j].network
           /\ found.stations[i].station = found.stations[j].station) => i = j

\* Two sources reported the same identity, one source reported it twice, and
\* the result holds two stations.
C5_Witness ==
    /\ found.done
    /\ Len(found.stations) = 2
    /\ Len(query.answers) = 2
    /\ \E i \in 1..Len(query.answers[1].stations), j \in 1..Len(query.answers[2].stations) :
          /\ query.answers[1].stations[i].network = query.answers[2].stations[j].network
          /\ query.answers[1].stations[i].station = query.answers[2].stations[j].station
    /\ Len(query.answers[2].stations) = 2
    /\ query.answers[2].stations[1].station = query.answers[2].stations[2].station

\* C6: the returned sequence is sorted non-decreasing by distance_km.
C6_SortedByDistance ==
    found.done =>
       \A i \in 1..Len(found.stations) - 1 :
          found.stations[i].distance_km <= found.stations[i + 1].distance_km

\* The first source reported a farther station before the nearer one the
\* result starts with.
C6_Witness ==
    /\ found.done
    /\ Len(found.stations) = 2
    /\ found.stations[1].distance_km < found.stations[2].distance_km
    /\ Len(query.answers) >= 1
    /\ Len(query.answers[1].stations) = 2
    /\ Distance(query.center, query.answers[1].stations[1].lon)
          > Distance(query.center, query.answers[1].stations[2].lon)

SourcesGaveNothing ==
    \A k \in 1..Len(query.answers) :
       ~query.answers[k].ok \/ query.answers[k].stations = <<>>

InRange ==
    {g \in 1..Len(GlobalStations) :
        Distance(query.center, GlobalStations[g].lon) <= query.radius}

Returned(g) ==
    \E i \in 1..Len(found.stations) :
       /\ found.stations[i].network = GlobalStations[g].network
       /\ found.stations[i].station = GlobalStations[g].station

\* C13: when every catalog source fails or yields no station, the resolver
\* returns stations of the built-in list only, all of them within the radius
\* of the centre: the nearest max_stations of those in range, or all of them
\* if they are fewer, and the empty sequence (no exception) if none is in
\* range.  (Stated of the resolvers that take max_stations.)
C13_FallbackWithinRadius ==
    (found.done /\ variant # "simple" /\ SourcesGaveNothing) =>
       /\ Len(found.stations) = Min(query.limit, Cardinality(InRange))
       /\ \A i \in 1..Len(found.stations) :
             \E g \in InRange :
                /\ found.stations[i].network = GlobalStations[g].network
                /\ found.stations[i].station = GlobalStations[g].station
                /\ found.stations[i].distance_km
                      = Distance(query.center, GlobalStations[g].lon)
       /\ \A g \in InRange :
             \/ Returned(g)
             \/ \A i \in 1..Len(found.stations) :
                   found.stations[i].distance_km
                      <= Distance(query.center, GlobalStations[g].lon)

\* One source failed and the other answered with no station, and the two
\* built-in stations in range came back.
C13_Witness ==
    /\ found.done
    /\ variant = "full"
    /\ Len(query.answers) = 2
    /\ ~query.answers[1].ok
    /\ query.answers[2].ok
    /\ SourcesGaveNothing
    /\ Len(found.stations) = 2
    /\ Cardinality(InRange) = 2

\* C14: of several occurrences of one station identity in the merged pool of
\* the sources' answers, the resolver retains the one with the smallest
\* distance: a returned station is no farther than any occurrence of its
\* identity that a source reported.
C14_NearestOccurrenceKept ==
    found.done =>
       \A i \in 1..Len(found.stations) :
          \A k \in 1..Len(query.answers) :
             \A j \in 1..Len(query.answers[k].stations) :
                LET o == query.answers[k].stations[j]
                IN (/\ query.answers[k].ok
                    /\ o.network = found.stations[i].network
                    /\ o.station = found.stations[i].station) =>
                      found.stations[i].distance_km <= Distance(query.center, o.lon)

KeysAscending ==
    <<"AU.EIDS", "GE.APE", "GE.SUMG", "IU.ANMO", "IU.HRV", "IU.KONO", "IU.TATO", "IU.ULN">>

KeyRank(key) == CHOOSE r \in 1..Len(KeysAscending) : KeysAscending[r] = key

\* C22: distance ties are broken by identity key: of two returned stations
\* with equal distance_km the one whose key string compares smaller comes
\* first, in whatever order the sources returned them.
C22_TiesByKey ==
    found.done =>
       \A i, j \in 1..Len(found.stations) :
          (/\ i < j
           /\ found.stations[i].distance_km = found.stations[j].distance_km) =>
             KeyRank(Key(found.stations[i])) < KeyRank(Key(found.stations[j]))

\* The stations the resolver has to choose from: what the sources reported,
\* or the built-in stations in range when they reported nothing.
Pool ==
    IF variant = "full" /\ ~SourcesGaveNothing
    THEN UNION {{query.answers[k].stations[j] : j \in 1..Len(query.answers[k].stations)} :
                   k \in {n \in 1..Len(query.answers) : query.answers[n].ok}}
    ELSE {GlobalStations[g] : g \in InRange}

InResult(o) ==
    \E i \in 1..Len(found.stations) :
       /\ found.stations[i].network = o.network
       /\ found.stations[i].station = o.station

\* C23: the resolver returns at most max_stations stations, and they are the
\* nearest of the deduplicated pool: as many as the pool has identities, up
\* to max_stations, and no station whose identity was left out is strictly
\* nearer than a returned one.  (Stated of the resolvers that take
\* max_stations.)
C23_NearestUpToLimit ==
    (found.done /\ variant # "simple") =>
       /\ Len(found.stations) <= query.limit
       /\ Len(found.stations) = Min(query.limit, Cardinality({Key(o) : o \in Pool}))
       /\ \A o \in Pool :
             ~InResult(o) =>
                \A i \in 1..Len(found.stations) :
                   found.stations[i].distance_km <= Distance(query.center, o.lon)

\* Two sources reported two identities between them, one was asked for, and
\* the one left out is strictly farther than the one returned.
C23_Witness ==
    /\ found.done
    /\ variant = "full"
    /\ query.limit = 1
    /\ Len(found.stations) = 1
    /\ Len(query.answers) = 2
    /\ Cardinality({Key(o) : o \in Pool}) = 2
    /\ \E o \in Pool :
          /\ ~InResult(o)
          /\ Distance(query.center, o.lon) > found.stations[1].distance_km

\* C27: a catalog source that raises or returns no station is not fatal to
\* the resolver: the other sources are still queried and what they return is
\* part of the result: every station a source reported is returned, unless
\* the result is full with stations that are no farther.
C27_FailedSourceNotFatal ==
    (found.done /\ variant = "full") =>
       \A k \in 1..Len(query.answers) :
          \A j \in 1..Len(query.answers[k].stations) :
             LET o == query.answers[k].stations[j]
             IN \/ InResult(o)
                \/ /\ Len(found.stations) = query.limit
                   /\ \A i \in 1..Len(found.stations) :
                         found.stations[i].distance_km <= Distance(query.center, o.lon)

\* The first source raised, the second reported two stations, and both are
\* the result.
C27_Witness ==
    /\ found.done
    /\ variant = "full"
    /\ Len(query.answers) = 2
    /\ ~query.answers[1].ok
    /\ Len(query.answers[2].stations) = 2
    /\ Len(found.stations) = 2
    /\ \A j \in 1..2 : InResult(query.answers[2].stations[j])
    /\ found.stations[1].client = ClientNames[2]

(***************************************************************************)
(* Claims about the archiver and the batch loop (checked under Spec).      *)
(***************************************************************************)
\* C1: a call for an event whose directory already exists under the archive
\* root makes no station-resolution call and no waveform fetch call, and
\* returns that directory.
C1_SkipIsIdempotent ==
    call.existed =>
       /\ call.resolves = 0
       /\ call.fetches = 0
       /\ call.pc = "ret"
       /\ call.result = "dir"
       /\ call.dir = EventDir(variant, call.event, call.event.date.t)
       /\ call.dir \in fs.dirs

\* The second run comes to an event that the first run archived with a
\* waveform file and a metadata record, and returns.
C1_Witness ==
    /\ run.no = 2
    /\ call.existed
    /\ call.pc = "ret"
    /\ call.dir \in DOMAIN fs.meta
    /\ \E f \in fs.files : f[1] = call.dir

\* C7: an event for which the resolver returns no station still gets a written
\* metadata record, with status no_stations_found and an empty station list,
\* and the call returns the directory, so that the batch loop counts the
\* event as successful.  (Stated of the fetchers that have a batch loop, and
\* of calls in which writing the record did not fail.)
C7_NoStationsStillRecorded ==
    (/\ variant # "simple"
     /\ call.pc = "ret"
     /\ call.resolved
     /\ call.stations = <<>>
     /\ ~call.oserror) =>
       /\ call.result = "dir"
       /\ call.dir \in DOMAIN fs.meta
       /\ fs.meta[call.dir].status = "no_stations_found"
       /\ fs.meta[call.dir].stations = <<>>

\* C8: a directory that an earlier run created and left without a metadata
\* record is not taken for a processed event by a later run: the later run's
\* call for that event does not return the directory (which the loop would
\* count as a success) while no metadata record exists.
C8_HalfCreatedNotMistaken ==
    (/\ call.pc = "ret"
     /\ call.dir \in run.inherited
     /\ call.dir \notin DOMAIN fs.meta) =>
       call.result = "None"

\* C9: before = [t - 30 days, t - buffer] and after = [t + buffer, t + 30 days]
\* for the event time t, with a buffer of 2 hours in the production fetcher
\* and 1 hour in the others; hence
\* before.start < before.end < t < after.start < after.end.
C9_Windows ==
    (call.pc \in {"resolve", "before", "after", "meta"} \/ call.resolved) =>
       LET t == call.event.date.t
           buffer == (IF variant = "production" THEN 2 ELSE 1) * 3600
           w == call.windows
       IN /\ w.before_start = t - 30 * 86400
          /\ w.before_end = t - buffer
          /\ w.after_start = t + buffer
          /\ w.after_end = t + 30 * 86400
          /\ w.before_start < w.before_end
          /\ w.before_end < t
          /\ t < w.after_start
          /\ w.after_start < w.after_end

\* The production fetcher fetching for an event whose date only the general
\* parser reads, with the 2-hour guard on both sides.
C9_Witness ==
    /\ variant = "production"
    /\ call.pc = "after"
    /\ call.event.date.fmt = "general"
    /\ call.windows.after_start - call.windows.before_end = 4 * 3600

\* C10: once the run was cancelled by Ctrl-C, no further event is started and
\* the run writes no processing_summary.json.
C10_InterruptStopsRun ==
    run.interrupted =>
       /\ ~run.startedAfterInterrupt
       /\ ~run.wroteSummary

(***************************************************************************)
(* Claims about the station loop of the archiver (checked under            *)
(* SpecArchive).                                                           *)
(***************************************************************************)
\* C11: within one event the retrievals are made station by station in the
\* order the resolver returned the stations, nearest first, and for each
\* station the before window comes first and the after window second: the
\* i-th retrieval of the call is that of station ceil(i/2), before for odd i
\* and after for even i.
C11_StationsInOrder ==
    /\ \A i \in 1..Len(call.log) :
          /\ (i + 1) \div 2 <= Len(call.stations)
          /\ call.log[i].station = Key(call.stations[(i + 1) \div 2])
          /\ call.log[i].window = IF i % 2 = 1 THEN "before" ELSE "after"
    /\ \A a, b \in 1..Len(call.stations) :
          a < b => call.stations[a].distance_km <= call.stations[b].distance_km

\* Both windows of two stations at different distances were retrieved, the
\* first retrieval having brought nothing.
C11_Witness ==
    /\ Len(call.log) = 4
    /\ call.pc = "meta"
    /\ call.stations[1].distance_km < call.stations[2].distance_km
    /\ call.log[1].station # call.log[3].station
    /\ ~call.log[1].got
    /\ call.log[4].got

\* C18: a window of a station is recorded as retrieved exactly when its
\* retrieval returned a waveform and the waveform file was written; a failed
\* write leaves the flag false and the call goes on: every later window and
\* station is still retrieved and the metadata record is written, with an
\* entry for every station walked.
C18_FlagOnlyWhenWritten ==
    /\ \A k \in 1..Len(call.data) :
          /\ call.data[k].key = call.log[2 * k - 1].station
          /\ call.data[k].before
                = (call.log[2 * k - 1].got /\ call.log[2 * k - 1].saved)
          /\ call.data[k].after = (call.log[2 * k].got /\ call.log[2 * k].saved)
    /\ \A d \in DOMAIN fs.meta :
          \A k \in 1..Len(fs.meta[d].stations) :
             LET e == fs.meta[d].stations[k]
             IN /\ e.before => <<d, e.key, "before">> \in fs.files
                /\ e.after => <<d, e.key, "after">> \in fs.files
    /\ (call.pc = "ret" /\ call.log # <<>> /\ ~call.oserror) =>
          /\ Len(call.log) = 2 * Len(Selected(variant, call.stations))
          /\ call.result = "dir"
          /\ call.dir \in DOMAIN fs.meta
          /\ fs.meta[call.dir].status = "completed"
          /\ fs.meta[call.dir].stations = call.data

\* The write of the first station's before file failed; the other three
\* windows were retrieved and written and the record was written.
C18_Witness ==
    /\ call.pc = "ret"
    /\ call.result = "dir"
    /\ Len(call.log) = 4
    /\ call.log[1].got
    /\ ~call.log[1].saved
    /\ \A i \in 2..4 : call.log[i].got /\ call.log[i].saved
    /\ call.dir \in DOMAIN fs.meta
    /\ ~fs.meta[call.dir].stations[1].before
    /\ fs.meta[call.dir].stations[1].after
    /\ fs.meta[call.dir].stations[2].before

\* C24: for one event at most 3 stations are fetched, each with exactly one
\* before-window and one after-window retrieval, so at most 3 x 2 x (length
\* of the fallback order) fetch calls are issued for the event.
C24_RequestVolumeCapped ==
    /\ Len(call.log) <= 3 * 2
    /\ Cardinality({call.log[i].station : i \in 1..Len(call.log)}) <= 3
    /\ \A i, j \in 1..Len(call.log) :
          (/\ call.log[i].station = call.log[j].station
           /\ call.log[i].window = call.log[j].window) => i = j
    /\ call.pc \in {"meta", "ret"} =>
          \A i \in 1..Len(call.log) :
             \E j \in 1..Len(call.log) :
                /\ call.log[j].station = call.log[i].station
                /\ call.log[j].window # call.log[i].window
    /\ call.fetches <= 3 * 2 * Len(order)

\* The resolver returned four stations, three were walked, and every
\* retrieval went through the whole fallback order.
C24_Witness ==
    /\ Len(call.stations) = 4
    /\ call.pc = "meta"
    /\ Len(call.log) = 6
    /\ Len(order) >= 1
    /\ call.fetches = 3 * 2 * Len(order)

(***************************************************************************)
(* Further claims about the batch loop (checked under Spec).               *)
(***************************************************************************)
\* C16: a run in which no service client could be initialised processes no
\* event: it starts no event, creates no event directory, attempts no fetch
\* and counts no event.
C16_NoClientNoEvent ==
    (run.no >= 1 /\ run.clients = 0) =>
       /\ run.i = 0
       /\ call.pc = "idle"
       /\ fs.dirs = run.inherited
       /\ run.successful = 0
       /\ run.failed = 0

\* C17: an error raised while an event is archived does not end the batch:
\* the call returns None, the loop adds one to failed for it (and one to
\* successful only for a call that returned a directory), the loop goes on,
\* and a run that is not interrupted ends having counted every row.  (Stated
\* of the fetchers that have a batch loop.)
C17_ErrorAbsorbed ==
    /\ [](variant # "simple" =>
            /\ call.oserror =>
                  /\ call.pc = "ret"
                  /\ call.result = "None"
                  /\ run.phase = "loop"
            /\ run.exit = "error" => Len(catalog) = 0
            /\ run.exit = "complete" =>
                  /\ run.i = Len(catalog)
                  /\ run.successful + run.failed = Len(catalog))
    /\ [][(variant # "simple" /\ call.pc = "ret" /\ call'.pc = "idle"
             /\ run'.phase = "loop") =>
            /\ run'.i = run.i
            /\ IF call.result = "None"
               THEN /\ run'.failed = run.failed + 1
                    /\ run'.successful = run.successful
               ELSE /\ run'.successful = run.successful + 1
                    /\ run'.failed = run.failed]_vars

\* The first row's metadata write failed (nothing else makes the full fetcher
\* fail on Quake without a Ctrl-C), it was counted failed, and the second row
\* is being archived.
C17_Witness ==
    /\ variant = "full"
    /\ run.no = 1
    /\ ~run.interrupted
    /\ Len(catalog) = 2
    /\ catalog[1] = Quake
    /\ run.i = 2
    /\ run.failed = 1
    /\ run.successful = 0
    /\ call.pc = "meta"

FilesOf(f, d) == {x \in f.files : x[1] = d}

\* C19: a written metadata record is terminal: no step of the run that wrote
\* it or of a later run over the same archive changes or removes the record
\* or adds, rewrites or removes a waveform file of its directory.
C19_RecordTerminal ==
    [][\A d \in DOMAIN fs.meta :
          /\ d \in DOMAIN fs'.meta
          /\ fs'.meta[d] = fs.meta[d]
          /\ FilesOf(fs', d) = FilesOf(fs, d)]_vars

\* A row that names the directory of the row before it, which has its record
\* and a waveform file, came up in the same run and was skipped.
C19_Witness ==
    /\ run.no = 1
    /\ run.i = 2
    /\ catalog[1] = Quake
    /\ call.event = QuakeAgain
    /\ call.pc = "ret"
    /\ call.existed
    /\ call.dir \in DOMAIN fs.meta
    /\ FilesOf(fs, call.dir) # {}

\* C21: a run that comes to the end of its event sequence, the empty
\* sequence included, has written the run summary, after the last event, with
\* total_events the number of events of the sequence and successful and
\* failed the final counters.  (Stated of the fetchers that have a batch
\* loop.)
C21_SummaryAtEnd ==
    (/\ variant # "simple"
     /\ run.no >= 1
     /\ run.phase = "ended"
     /\ run.exit \in {"complete", "error"}) =>
       /\ run.i = Len(catalog)
       /\ run.wroteSummary
       /\ fs.summary = [written |-> TRUE,
                        total_events |-> Len(catalog),
                        successful |-> run.successful,
                        failed |-> run.failed]

\* C25: in every written metadata record the status is no_stations_found if
\* and only if the resolver returned no station for the event; when it
\* returned a station the status is completed, even if no retrieval of the
\* event brought anything.
C25_StatusFollowsResolver ==
    /\ \A d \in DOMAIN fs.meta :
          /\ fs.meta[d].status \in {"no_stations_found", "completed"}
          /\ fs.meta[d].status = "no_stations_found" <=> fs.meta[d].stations = <<>>
    /\ (call.pc = "ret" /\ call.resolved /\ call.dir \in DOMAIN fs.meta) =>
          /\ fs.meta[call.dir].status = "no_stations_found" <=> call.stations = <<>>
          /\ call.stations # <<>> => fs.meta[call.dir].status = "completed"
          /\ Len(fs.meta[call.dir].stations) = Len(Selected(variant, call.stations))

\* The resolver returned a station, neither window brought a waveform, and
\* the record was written.
C25_Witness ==
    /\ call.pc = "ret"
    /\ call.result = "dir"
    /\ call.stations # <<>>
    /\ Len(call.log) = 2
    /\ ~call.log[1].got
    /\ ~call.log[2].got
    /\ call.fetches > 0
    /\ call.dir \in DOMAIN fs.meta
    /\ fs.meta[call.dir].status = "completed"

Unparseable == call.pc # "idle" /\ call.event.date.fmt = "bad"

\* C28: a row whose date_time neither the primary format nor the general
\* parser reads is skipped and is not fatal: the call creates no directory,
\* resolves no station and fetches nothing, returns None, the loop counts the
\* row as failed and goes on.
C28_UnparseableSkipped ==
    /\ [](Unparseable =>
            /\ call.pc \in {"parse1", "parse2", "ret"}
            /\ call.dir = NoDir
            /\ call.resolves = 0
            /\ call.fetches = 0
            /\ call.result = "None"
            /\ run.exit # "error")
    /\ [][Unparseable =>
            /\ fs' = fs
            /\ (call'.pc = "idle" /\ run'.phase = "loop") =>
                  /\ call.pc = "ret"
                  /\ run'.failed = run.failed + 1
                  /\ run'.successful = run.successful
                  /\ run'.i = run.i]_vars

\* The first row's date could not be read, the row was counted as failed,
\* and the second row is being archived.
C28_Witness ==
    /\ Len(catalog) = 2
    /\ catalog[1] = Garbled
    /\ run.no = 1
    /\ ~run.interrupted
    /\ run.i = 2
    /\ run.failed = 1
    /\ run.successful = 0
    /\ call.pc = "resolve"

(***************************************************************************)
(* Claims about the progress report (checked under SpecProgress).          *)
(***************************************************************************)
\* C29: a progress report is printed after the k-th row processed in the run
\* exactly when k is a multiple of 10, whatever rows were dropped from the
\* catalog for missing coordinates and whatever the start offset.
C29_CheckpointEveryTen ==
    \A k \in 1..run.i : (k \in run.checkpoints) <=> (k % 10 = 0)

(***************************************************************************)
(* Claims about the counters of the batch loop (checked under Spec).       *)
(***************************************************************************)
\* Events of the catalog whose iteration of the loop is over in this run.
EventsDone == IF call.pc = "idle" THEN run.i ELSE run.i - 1

\* C30: in the full and production fetchers, at every point of the batch loop
\* successful + failed is the number of events whose iteration has finished
\* in this run, the events are taken once each in the order of the catalog,
\* and a summary that was written has successful + failed = total_events.
C30_CountersAddUp ==
    /\ [](variant # "simple" =>
            /\ run.phase = "loop" => run.successful + run.failed = EventsDone
            /\ run.phase = "loop" /\ call.pc # "idle" =>
                  /\ run.i \in 1..Len(catalog)
                  /\ call.event = catalog[run.i]
            /\ fs.summary.written =>
                  fs.summary.successful + fs.summary.failed
                     = fs.summary.total_events)
    /\ [][variant # "simple" /\ run.phase = "loop" /\ run'.phase = "loop" =>
             \/ run'.i = run.i
             \/ /\ run'.i = run.i + 1
                /\ call.pc = "idle"
                /\ call'.event = catalog[run.i + 1]]_vars

\* A run over two events ended with one success and one failure in its summary.
C30_Witness ==
    /\ variant # "simple"
    /\ run.phase = "ended"
    /\ run.wroteSummary
    /\ fs.summary.total_events = 2
    /\ fs.summary.successful = 1
    /\ fs.summary.failed = 1

=============================================================================
